---------------------------- MODULE Spec2Model ----------------------------
(***************************************************************************)
(* A model of pazk-notes: the multilinear polynomial of the sum-check      *)
(* crate (evaluate, partial_evaluate), the Lagrange interpolation of the   *)
(* multilinear-interpolation crate, and the GKR sum-check prover.          *)
(*                                                                         *)
(* Scalar is the BLS12-381 scalar field, the integers modulo a 255-bit     *)
(* prime r.  Every value of this model has a magnitude far below r, so     *)
(* two scalars are equal in the field exactly when they are equal as       *)
(* integers: a Scalar is modelled as an integer, Scalar::one().neg() as    *)
(* -1.  usize values are naturals; in the ranges of this model no usize    *)
(* product reaches 2^64.                                                   *)
(*                                                                         *)
(* A Vec is a sequence: the Rust index i is the TLA+ index i + 1.          *)
(***************************************************************************)
EXTENDS Integers, Sequences, FiniteSets, TLC

VARIABLES
    mle,        \* the MPolynomial under test: [var_num, coeffs], or NoMle
    evals,      \* the evaluation table the MPolynomial was interpolated from
    call,       \* the last call: [op, ...arguments]
    ret,        \* its outcome: [status, value]
    map,        \* the HashMap<usize, Scalar> of the last partial_evaluate
    prover,     \* the GKR Prover: [v_l, v_r, add, mult, w_i_plus_1, r_i]
    verifier,   \* the sum-check verifier: [state, round, claimed_sum, claim,
                \* challenges, received]
    msg,        \* the message in flight from the prover to the verifier
    honest      \* whether every message so far was computed by the Prover

vars == <<mle, evals, call, ret, map, prover, verifier, msg, honest>>

\* The state of a sum-check session.
gkr == <<prover, verifier, msg, honest>>

-----------------------------------------------------------------------------
(* Bounds of the model. *)

\* MPolynomials of 1..MaxVarNum variables are enumerated.
MaxVarNum == 2
\* An enumerated coefficient table has at most MaxTerms nonzero coefficients,
MaxTerms == 2
\* each in 1..MaxCoeff.
MaxCoeff == 2
\* The entries of a domain, a prefix and a point r are in 0..MaxVal.
MaxVal == 2

-----------------------------------------------------------------------------
(* Outcomes of a call: a returned value or a panic. *)

Ok(v) == [status |-> "ok", value |-> v]
Panic(message) == [status |-> "panic", value |-> message]

NoMle == [var_num |-> 0, coeffs |-> <<>>]
NoCall == [op |-> "none"]
NoRet == [status |-> "none", value |-> 0]
EmptyMap == <<>>
NoProver == [v_l |-> 0, v_r |-> 0, add |-> NoMle, mult |-> NoMle,
             w_i_plus_1 |-> NoMle, r_i |-> <<>>]
NoVerifier == [state |-> "none", round |-> 0, claimed_sum |-> 0, claim |-> 0,
               challenges |-> <<>>, received |-> <<>>]
NoMsg == [kind |-> "none", value |-> 0]

\* No sum-check session is running.
NoSession ==
    /\ prover = NoProver
    /\ verifier = NoVerifier
    /\ msg = NoMsg
    /\ honest = TRUE

SetMax(S) == CHOOSE x \in S : \A y \in S : y <= x

-----------------------------------------------------------------------------
(* utils *)

\* crate::utils::convert_to_binary(&bit_len, num): the bit_len-bit binary
\* expansion of num, most significant bit first.
convert_to_binary(bit_len, num) ==
    [j \in 1..bit_len |-> (num \div (2 ^ (bit_len - j))) % 2]

\* usize::pow for the exponents 0 and 1 of a multilinear term (0.pow(0) = 1).
pow(x, exp) == IF exp = 0 THEN 1 ELSE x ^ exp

-----------------------------------------------------------------------------
(* MPolynomial::evaluate *)

\* The loop over domain.zip(exps): product *= x.pow(exp), with the break as
\* soon as the product is 0.
RECURSIVE evaluate_product(_, _, _, _)
evaluate_product(domain, exps, pos, product) ==
    IF pos > Len(domain) \/ pos > Len(exps)
    THEN product
    ELSE LET p == product * pow(domain[pos], exps[pos])
         IN  IF p = 0 THEN 0
             ELSE evaluate_product(domain, exps, pos + 1, p)

\* A mutant of evaluate_term: a product of 1 is dropped like a product of 0.
evaluate_term_skip_one(self, domain, index) ==
    LET coeff == self.coeffs[index + 1]
    IN  IF coeff = 0 THEN 0
        ELSE IF index = 0 THEN coeff
        ELSE LET product == evaluate_product(
                                domain,
                                convert_to_binary(self.var_num, index), 1, 1)
             IN  IF product \in {0, 1} THEN 0 ELSE coeff * product

\* What one iteration of the loop over the coefficients adds to sum_of_term.
evaluate_term(self, domain, index) ==
    LET coeff == self.coeffs[index + 1]
    IN  IF coeff = 0 THEN 0
        ELSE IF index = 0 THEN coeff
        ELSE LET product == evaluate_product(
                                domain,
                                convert_to_binary(self.var_num, index), 1, 1)
             IN  CASE product = 0 -> 0
                   [] product = 1 -> coeff
                   [] OTHER -> coeff * product

RECURSIVE evaluate_sum(_, _, _, _)
evaluate_sum(self, domain, index, sum_of_term) ==
    IF index >= Len(self.coeffs)
    THEN sum_of_term
    ELSE evaluate_sum(self, domain, index + 1,
                      sum_of_term + evaluate_term(self, domain, index))

evaluate(self, domain) ==
    IF Len(domain) # self.var_num
    THEN Panic("Domain is less than var_num")
    ELSE Ok(evaluate_sum(self, domain, 0, 0))

-----------------------------------------------------------------------------
(* MPolynomial::partial_evaluate *)

\* A mutant of map_add: the entry is overwritten, not added to.
map_add_overwrite(m, key, term) ==
    IF key \in DOMAIN m
    THEN [m EXCEPT ![key] = term]
    ELSE m @@ (key :> term)

\* map.entry(key).and_modify(|v| v.add_assign(&term)).or_insert(term)
map_add(m, key, term) ==
    IF key \in DOMAIN m
    THEN [m EXCEPT ![key] = @ + term]
    ELSE m @@ (key :> term)

\* A mutant of pe_product: the exponent of every variable is added to the
\* key, not only the exponent of x_j.
RECURSIVE pe_product_key_of_all(_, _, _, _, _, _)
pe_product_key_of_all(domain, exps, j, index, key, product) ==
    IF index >= Len(domain) \/ index >= Len(exps)
    THEN [key |-> key, product |-> product]
    ELSE LET exp == exps[index + 1]
             k == key + exp
             p == IF index = j THEN product
                  ELSE product * pow(domain[index + 1], exp)
         IN  IF p = 0 THEN [key |-> k, product |-> 0]
             ELSE pe_product_key_of_all(domain, exps, j, index + 1, k, p)

\* The loop over domain.iter().zip(exps).enumerate(): at index j the exponent
\* becomes the key, elsewhere x_i.pow(exp) is multiplied into the product; the
\* loop breaks as soon as the product is 0.
RECURSIVE pe_product(_, _, _, _, _, _)
pe_product(domain, exps, j, index, key, product) ==
    IF index >= Len(domain) \/ index >= Len(exps)
    THEN [key |-> key, product |-> product]
    ELSE LET exp == exps[index + 1]
             k == IF index = j THEN exp ELSE key
             p == IF index = j THEN product
                  ELSE product * pow(domain[index + 1], exp)
         IN  IF p = 0 THEN [key |-> k, product |-> 0]
             ELSE pe_product(domain, exps, j, index + 1, k, p)

\* One iteration of the loop over extra_domain, for the coefficient at index.
pe_accumulate(self, challenge_domain, index, extra, m) ==
    LET coeff == self.coeffs[index + 1]
        j == Len(challenge_domain)
    IN  IF index = 0
        THEN map_add(m, 0, coeff)
        ELSE LET domain == challenge_domain \o <<0>> \o extra
                 exps == convert_to_binary(self.var_num, index)
                 kp == pe_product(domain, exps, j, 0, 0, 1)
             IN  IF kp.product = 0 THEN m
                 ELSE map_add(m, kp.key, coeff * kp.product)

\* The loop over extra_domain: n = 0 .. extra_n - 1 in order.
RECURSIVE pe_extras(_, _, _, _, _)
pe_extras(self, challenge_domain, index, n, m) ==
    LET extra_var_num == self.var_num - Len(challenge_domain) - 1
    IN  IF n >= 2 ^ extra_var_num
        THEN m
        ELSE pe_extras(self, challenge_domain, index, n + 1,
                 pe_accumulate(self, challenge_domain, index,
                               convert_to_binary(extra_var_num, n), m))

\* The loop over self.coeffs.iter().enumerate(), zero coefficients skipped.
RECURSIVE pe_coeffs(_, _, _, _)
pe_coeffs(self, challenge_domain, index, m) ==
    IF index >= Len(self.coeffs)
    THEN m
    ELSE pe_coeffs(self, challenge_domain, index + 1,
             IF self.coeffs[index + 1] = 0 THEN m
             ELSE pe_extras(self, challenge_domain, index, 0, m))

\* The accumulator when the loops are done.
pe_map(self, challenge_domain) == pe_coeffs(self, challenge_domain, 0, EmptyMap)

\* map -> poly: map.keys().max().unwrap() panics on an empty map; the keys
\* 0..=max_key become the coefficients, a missing key becomes zero.
pe_densify(m) ==
    IF DOMAIN m = {}
    THEN Panic("called Option::unwrap() on a None value")
    ELSE LET max_key == SetMax(DOMAIN m)
         IN  Ok([i \in 1..(max_key + 1) |->
                    IF (i - 1) \in DOMAIN m THEN m[i - 1] ELSE 0])

\* partial_evaluate under a build with (overflow_checks) or without integer
\* overflow checks.  assert!(j >= 0 || j < self.var_num) holds for every
\* usize j, so it never fires.  With j >= var_num the subtraction
\* self.var_num - j - 1 overflows: a checked build panics there; an unchecked
\* build wraps to 2^64 - (j + 1 - var_num) and dies building an extra domain
\* of bit vectors of that length.
partial_evaluate(self, challenge_domain, overflow_checks) ==
    LET j == Len(challenge_domain)
    IN  IF ~(j >= 0 \/ j < self.var_num)
        THEN Panic("assertion failed: j >= 0 || j < self.var_num")
        ELSE IF self.var_num < j + 1
        THEN IF overflow_checks
             THEN Panic("attempt to subtract with overflow")
             ELSE Panic("capacity overflow")
        ELSE pe_densify(pe_map(self, challenge_domain))

\* The accumulator partial_evaluate leaves behind (empty when it died before
\* its loops).
partial_evaluate_map(self, challenge_domain) ==
    IF self.var_num < Len(challenge_domain) + 1
    THEN EmptyMap
    ELSE pe_map(self, challenge_domain)

-----------------------------------------------------------------------------
(* Univariate Polynomial (crate::poly::univar_poly): coefficients low to    *)
(* high.                                                                    *)

\* Polynomial::evaluate: the method of Horner.
RECURSIVE poly_horner(_, _, _, _)
poly_horner(coeffs, x, i, acc) ==
    IF i = 0 THEN acc
    ELSE poly_horner(coeffs, x, i - 1, acc * x + coeffs[i])

poly_evaluate(coeffs, x) == poly_horner(coeffs, x, Len(coeffs), 0)

-----------------------------------------------------------------------------
(* Inputs. *)

\* The vectors of n usize values.
Vectors(n) == [1..n -> 0..MaxVal]

\* The all-zero vector of length n.
Zeros(n) == [i \in 1..n |-> 0]

\* The coefficient tables of an MPolynomial of var_num variables.
Tables(var_num) ==
    {t \in [1..(2 ^ var_num) -> 0..MaxCoeff] :
        Cardinality({i \in DOMAIN t : t[i] # 0}) <= MaxTerms}

\* g(x1, x2, x3) = 5 + 2*x3 + 3*x2 + x1*x2*x3 of test_partial_evaluate and
\* test_evaluate, and the challenge_domain of test_partial_evaluate.
TestMle == [var_num |-> 3, coeffs |-> <<5, 2, 3, 0, 0, 0, 0, 1>>]
TestPrefix == <<10>>

Mles ==
    UNION {{[var_num |-> v, coeffs |-> t] : t \in Tables(v)} :
              v \in 0..MaxVarNum}
        \cup {TestMle}

\* The domains evaluate is called with: every vector of the right length,
\* and one that is too long.
Domains(var_num) == Vectors(var_num) \cup {Zeros(var_num + 1)}

\* The prefixes partial_evaluate is called with: every vector shorter than
\* var_num, the prefix of the test, and two that are too long.
Prefixes(var_num) ==
    UNION {Vectors(j) : j \in 0..(var_num - 1)}
        \cup (IF Len(TestPrefix) < var_num THEN {TestPrefix} ELSE {})
        \cup {Zeros(var_num), Zeros(var_num + 1)}

-----------------------------------------------------------------------------
(* The MPolynomial of the sum-check crate: an MPolynomial is built from its *)
(* coefficients, then evaluate and partial_evaluate are called on it.       *)

Init ==
    /\ mle \in Mles
    /\ evals = <<>>
    /\ call = NoCall
    /\ ret = NoRet
    /\ map = EmptyMap
    /\ NoSession

\* The caller makes one call at a time.
Evaluate ==
    \E domain \in Domains(mle.var_num) :
        /\ call = NoCall
        /\ call' = [op |-> "evaluate", domain |-> domain]
        /\ ret' = evaluate(mle, domain)
        /\ UNCHANGED <<mle, evals, map, gkr>>

PartialEvaluate ==
    \E challenge_domain \in Prefixes(mle.var_num), overflow_checks \in BOOLEAN :
        /\ call = NoCall
        /\ call' = [op |-> "partial_evaluate",
                    challenge_domain |-> challenge_domain]
        /\ ret' = partial_evaluate(mle, challenge_domain, overflow_checks)
        /\ map' = partial_evaluate_map(mle, challenge_domain)
        /\ UNCHANGED <<mle, evals, gkr>>

\* The caller drops what the call returned (or catches its panic) and is
\* ready for the next call.
Drop ==
    /\ call # NoCall
    /\ call' = NoCall
    /\ ret' = NoRet
    /\ map' = EmptyMap
    /\ UNCHANGED <<mle, evals, gkr>>

Next == Evaluate \/ PartialEvaluate \/ Drop

Spec == Init /\ [][Next]_vars


-----------------------------------------------------------------------------
(* The mathematics the properties are stated in. *)

\* The sum of f[x] over the domain of f.
RECURSIVE SumFn(_)
SumFn(f) ==
    IF DOMAIN f = {} THEN 0
    ELSE LET x == CHOOSE y \in DOMAIN f : TRUE
         IN  f[x] + SumFn([y \in DOMAIN f \ {x} |-> f[y]])

\* The product of f[x] over the domain of f.
RECURSIVE ProductFn(_)
ProductFn(f) ==
    IF DOMAIN f = {} THEN 1
    ELSE LET x == CHOOSE y \in DOMAIN f : TRUE
         IN  f[x] * ProductFn([y \in DOMAIN f \ {x} |-> f[y]])

\* Whether the bit of variable j (1 = most significant) is set in the
\* v-bit expansion of i.
BitSet(v, i, j) == (i \div (2 ^ (v - j))) % 2 = 1

\* The monomial of index i at a point: the product of point[j] over the
\* positions j whose bit is set in i.
Monomial(v, i, point) ==
    ProductFn([j \in {k \in 1..v : BitSet(v, i, k)} |-> point[j]])

\* The value of the multilinear polynomial with these coefficients at a point.
MleValue(f, point) ==
    SumFn([i \in 0..(2 ^ f.var_num - 1) |->
              f.coeffs[i + 1] * Monomial(f.var_num, i, point)])

\* The Boolean hypercube {0,1}^n.
Hypercube(n) == [1..n -> {0, 1}]

\* The sum of f(prefix, r, c) over the hypercube points c of the variables
\* after x_j.
HypercubeSum(f, prefix, r) ==
    SumFn([c \in Hypercube(f.var_num - Len(prefix) - 1) |->
              MleValue(f, prefix \o <<r>> \o c)])

\* The points r a partially evaluated polynomial is compared at.
Points == 0..MaxVal \cup {10}

-----------------------------------------------------------------------------
(* C3.  Full evaluation: for every MLE of v variables and every domain of   *)
(* length v, evaluate(domain) is the sum over all indices i of coeffs[i]    *)
(* times the product of domain[j] over the positions j whose bit is set in  *)
(* i (position 0 the most significant bit); skipping zero coefficients and  *)
(* zero products changes nothing.  For coeffs [5,2,3,0,0,0,0,1] and domain  *)
(* (0,1,1) the value is 10.                                                 *)

-----------------------------------------------------------------------------
(* C2.  Partial evaluation computes the hypercube sum: for every MLE f of   *)
(* v variables, every prefix of length j < v and every value r, the         *)
(* polynomial g = f.partial_evaluate(prefix) satisfies                      *)
(* g(r) = sum over c in {0,1}^(v-j-1) of f(prefix ++ [r] ++ c); for coeffs  *)
(* [5,2,3,0,0,0,0,1] and prefix [10] it returns 12 + 16X, and g(10) = 172.  *)

PartialEvaluateIsHypercubeSum ==
    (call.op = "partial_evaluate" /\ Len(call.challenge_domain) < mle.var_num)
        => /\ ret.status = "ok"
           /\ \A r \in Points :
                  poly_evaluate(ret.value, r)
                      = HypercubeSum(mle, call.challenge_domain, r)
           /\ (mle = TestMle /\ call.challenge_domain = TestPrefix)
                  => /\ ret.value = <<12, 16>>
                     /\ poly_evaluate(ret.value, 10) = 172

-----------------------------------------------------------------------------
(* C9.  Degree bound of partial evaluation: for every MLE and every prefix  *)
(* of length j < var_num, partial_evaluate accumulates only under the       *)
(* exponent keys 0 and 1, and a Polynomial it returns has at most 2         *)
(* coefficients (degree <= 1).                                              *)

PartialEvaluateDegreeBound ==
    call.op = "partial_evaluate"
        => /\ DOMAIN map \subseteq {0, 1}
           /\ ret.status = "ok" => Len(ret.value) <= 2

\* partial_evaluate has accumulated under both keys and returned a
\* polynomial of degree 1, with variables on both sides of x_j.
PartialEvaluateDegreeWitness ==
    /\ call.op = "partial_evaluate"
    /\ mle = TestMle
    /\ call.challenge_domain = TestPrefix
    /\ DOMAIN map = {0, 1}
    /\ ret = Ok(<<12, 16>>)

-----------------------------------------------------------------------------
(* C10.  An out-of-range prefix is rejected: partial_evaluate called with a *)
(* prefix of length j >= var_num fails on its precondition check, with an   *)
(* out-of-range error, and returns no Polynomial.                           *)

OutOfRangePrefixRejectedByPrecondition ==
    (call.op = "partial_evaluate" /\ Len(call.challenge_domain) >= mle.var_num)
        => ret = Panic("assertion failed: j >= 0 || j < self.var_num")

-----------------------------------------------------------------------------
(* The MPolynomial of the multilinear-interpolation crate: lagrange and     *)
(* mpoly_langrange_basis.  Its evaluate is the same code as the evaluate of *)
(* the sum-check crate, modelled above.                                     *)

\* The bitwise or of two v-bit exponent masks.
BitOr(v, p, q) ==
    SumFn([j \in 0..(v - 1) |->
              IF (p \div (2 ^ j)) % 2 = 1 \/ (q \div (2 ^ j)) % 2 = 1
              THEN 2 ^ j ELSE 0])

\* The Vec with the entries f[1], ..., f[k].
RECURSIVE VecFrom(_, _)
VecFrom(f, k) == IF k = 0 THEN <<>> ELSE Append(VecFrom(f, k - 1), f[k])

\* crate::utils::expand_factor_for_mpoly: the product of two coefficient
\* tables; coeff[p] * factor[q] is added at the position p | q.
expand_factor_for_mpoly(var_num, product, factor) ==
    LET n == 2 ^ var_num
        support == {p \in 0..(n - 1) : product[p + 1] # 0}
                       \X {q \in 0..(n - 1) : factor[q + 1] # 0}
        expanded ==
            [r \in 1..n |->
                SumFn([pq \in {x \in support :
                                  BitOr(var_num, x[1], x[2]) = r - 1} |->
                          product[pq[1] + 1] * factor[pq[2] + 1]])]
    IN  VecFrom(expanded, n)

\* A mutant of gen_X_wi: variable i is encoded at bit i, not at bit
\* var_num - 1 - i.
gen_X_wi_low_bit_first(var_num, i, w_i) ==
    LET index == 2 ^ i
        factor == [p \in 1..(2 ^ var_num) |->
                      IF w_i = 0
                      THEN (IF p - 1 = index THEN -1
                            ELSE IF p - 1 = 0 THEN 1 ELSE 0)
                      ELSE (IF p - 1 = index THEN 1 ELSE 0)]
    IN  VecFrom(factor, 2 ^ var_num)

\* The closure gen_X_wi for w_i in {0, 1}: the factor 1 - x_i (w_i = 0) or
\* x_i (w_i = 1) as a coefficient table; variable i is the bit var_num - 1 - i.
gen_X_wi(var_num, i, w_i) ==
    LET index == 2 ^ (var_num - 1 - i)
        factor == [p \in 1..(2 ^ var_num) |->
                      IF w_i = 0
                      THEN (IF p - 1 = index THEN -1
                            ELSE IF p - 1 = 0 THEN 1 ELSE 0)
                      ELSE (IF p - 1 = index THEN 1 ELSE 0)]
    IN  VecFrom(factor, 2 ^ var_num)

\* The loop over w.iter().enumerate(), for i >= 1.
RECURSIVE basis_product(_, _, _, _)
basis_product(var_num, w, i, product) ==
    IF i >= Len(w)
    THEN product
    ELSE basis_product(var_num, w, i + 1,
             expand_factor_for_mpoly(var_num, product,
                                     gen_X_wi(var_num, i, w[i + 1])))

\* mpoly_langrange_basis: the assertion on the length of w, the panic of w[0]
\* on an empty w, the panic of gen_X_wi on a w_i outside {0, 1}.
mpoly_langrange_basis(var_num, w) ==
    IF var_num # Len(w)
    THEN Panic("assertion failed: var_num == w.len()")
    ELSE IF Len(w) = 0
    THEN Panic("index out of bounds: the len is 0 but the index is 0")
    ELSE IF \E i \in 1..Len(w) : w[i] \notin {0, 1}
    THEN Panic("Only support (0,1)^v hypercube")
    ELSE Ok(basis_product(var_num, w, 1, gen_X_wi(var_num, 0, w[1])))

\* The loop of lagrange over evals.iter().enumerate(): F += f(w) * X_w.
RECURSIVE lagrange_sum(_, _, _, _)
lagrange_sum(var_num, table, i, F) ==
    IF i >= Len(table)
    THEN Ok([var_num |-> var_num, coeffs |-> F])
    ELSE LET X_w == mpoly_langrange_basis(var_num,
                                          convert_to_binary(var_num, i))
         IN  IF X_w.status # "ok" THEN X_w
             ELSE lagrange_sum(var_num, table, i + 1,
                      VecFrom([k \in 1..(2 ^ var_num) |->
                                  F[k] + X_w.value[k] * table[i + 1]],
                              2 ^ var_num))

lagrange(var_num, table) ==
    IF Len(table) # 2 ^ var_num
    THEN Panic("Domain is less than var_num")
    ELSE lagrange_sum(var_num, table, 0, Zeros(2 ^ var_num))

-----------------------------------------------------------------------------
(* Interpolation: an evaluation table is interpolated by lagrange, and the  *)
(* MPolynomial it returns is evaluated on the points of the hypercube, as   *)
(* test_lagrange does.                                                      *)

\* The evaluation tables: of length 2^v for v in 0..MaxVarNum, and the table
\* of test_lagrange.
EvalTables == UNION {Tables(v) : v \in 0..MaxVarNum} \cup {TestMle.coeffs}

\* The number of variables of a table of length n = 2^v.
RECURSIVE Log2(_)
Log2(n) == IF n <= 1 THEN 0 ELSE 1 + Log2(n \div 2)

InitLagrange ==
    /\ mle = NoMle
    /\ evals \in EvalTables
    /\ call = NoCall
    /\ ret = NoRet
    /\ map = EmptyMap
    /\ NoSession

\* lagrange(var_num, &evals), with the var_num of the table or one more.
Lagrange ==
    \E var_num \in {Log2(Len(evals)), Log2(Len(evals)) + 1} :
        /\ call = NoCall
        /\ mle = NoMle
        /\ call' = [op |-> "lagrange", var_num |-> var_num]
        /\ ret' = lagrange(var_num, evals)
        /\ mle' = IF ret'.status = "ok" THEN ret'.value ELSE mle
        /\ UNCHANGED <<evals, map, gkr>>

\* poly.evaluate(&convert_to_binary(&var_num, i)) on the interpolated poly.
EvaluateOnHypercube ==
    \E i \in 0..(2 ^ mle.var_num - 1) :
        /\ call = NoCall
        /\ mle # NoMle
        /\ call' = [op |-> "evaluate", i |-> i,
                    domain |-> convert_to_binary(mle.var_num, i)]
        /\ ret' = evaluate(mle, convert_to_binary(mle.var_num, i))
        /\ UNCHANGED <<mle, evals, map, gkr>>

NextLagrange == Lagrange \/ EvaluateOnHypercube \/ Drop

SpecLagrange == InitLagrange /\ [][NextLagrange]_vars

-----------------------------------------------------------------------------
(* C1.  Interpolation round trip: for every var_num v with 0 <= v <= 6 and  *)
(* every evaluation table evals of length 2^v, the MLE returned by          *)
(* lagrange(v, evals) satisfies evaluate(bits(i)) = evals[i] for every i in *)
(* [0, 2^v), bits(i) being the v-bit expansion of i, most significant bit   *)
(* first.                                                                   *)

LagrangeRoundTrip ==
    /\ (call.op = "lagrange" /\ Len(evals) = 2 ^ call.var_num)
           => /\ ret.status = "ok"
              /\ \A i \in 0..(Len(evals) - 1) :
                     evaluate(ret.value, convert_to_binary(call.var_num, i))
                         = Ok(evals[i + 1])
    /\ call.op = "evaluate" => ret = Ok(evals[call.i + 1])

-----------------------------------------------------------------------------
(* The Lagrange basis: mpoly_langrange_basis is called with a var_num and   *)
(* a vector w.                                                              *)

\* mpoly_langrange_basis is called with 0..MaxBasisVars variables.
MaxBasisVars == 4

InitBasis ==
    /\ mle = NoMle
    /\ evals = <<>>
    /\ call = NoCall
    /\ ret = NoRet
    /\ map = EmptyMap
    /\ NoSession

\* mpoly_langrange_basis(var_num, w), with a w of var_num entries or of one
\* entry more.
Basis ==
    \E var_num \in 0..MaxBasisVars :
        \E w \in Vectors(var_num) \cup {Zeros(var_num + 1)} :
            /\ call = NoCall
            /\ call' = [op |-> "mpoly_langrange_basis",
                        var_num |-> var_num, w |-> w]
            /\ ret' = mpoly_langrange_basis(var_num, w)
            /\ UNCHANGED <<mle, evals, map, gkr>>

NextBasis == Basis \/ Drop

SpecBasis == InitBasis /\ [][NextBasis]_vars

\* The exponent mask of w: variable i (from 0) is the bit v - 1 - i.
MaskOf(w) == SumFn([i \in 1..Len(w) |-> w[i] * 2 ^ (Len(w) - i)])

\* The number of bits set in the v-bit mask m.
PopCount(v, m) == Cardinality({j \in 1..v : BitSet(v, m, j)})

\* Whether the mask m contains every bit of the mask k.
ContainsMask(v, m, k) == \A j \in 1..v : BitSet(v, k, j) => BitSet(v, m, j)

\* X_w(x) = the product over i of (x_i * w_i + (1 - x_i) * (1 - w_i)).
BasisValue(w, x) ==
    ProductFn([i \in 1..Len(w) |-> x[i] * w[i] + (1 - x[i]) * (1 - w[i])])

-----------------------------------------------------------------------------
(* C4.  Lagrange basis table: for every var_num v >= 1 and every w in       *)
(* {0,1}^v, mpoly_langrange_basis(v, w) is the coefficient table of         *)
(* X_w(x) = product over i of (x_i*w_i + (1-x_i)(1-w_i)): the entry at the  *)
(* bitmask m is (-1)^(popcount(m) - popcount(mask(w))) when m contains      *)
(* every bit of mask(w), and zero otherwise (variable i is the bit v-1-i).  *)
(* For v = 4, w = (0,0,1,1): +1 at 3 and 15, -1 at 7 and 11, zero elsewhere.*)

BasisIsIndicatorTable ==
    (/\ call.op = "mpoly_langrange_basis"
     /\ call.var_num >= 1
     /\ call.w \in Hypercube(call.var_num))
        => LET v == call.var_num
               k == MaskOf(call.w)
           IN  /\ ret.status = "ok"
               /\ \A m \in 0..(2 ^ v - 1) :
                      ret.value[m + 1] =
                          IF ContainsMask(v, m, k)
                          THEN (-1) ^ (PopCount(v, m) - PopCount(v, k))
                          ELSE 0
               /\ \A x \in Hypercube(v) :
                      MleValue([var_num |-> v, coeffs |-> ret.value], x)
                          = BasisValue(call.w, x)
               /\ call.w = <<0, 0, 1, 1>>
                      => ret.value = <<0, 0, 0, 1, 0, 0, 0, -1,
                                       0, 0, 0, -1, 0, 0, 0, 1>>

\* The basis of the test, v = 4 and w = (0,0,1,1), has been computed.
BasisWitness ==
    /\ call.op = "mpoly_langrange_basis"
    /\ call.var_num = 4
    /\ call.w = <<0, 0, 1, 1>>
    /\ ret.status = "ok"
    /\ ret.value[8] = -1

-----------------------------------------------------------------------------
(* The GKR sum-check Prover of 4_GKR/src/gkr_sumcheck/prover.rs.  Its       *)
(* MPolynomial is the one of 4_sum-check; the univariate Polynomial and     *)
(* sum_all_evals are described by the specification only.                   *)

\* Polynomial::add: the index-wise sum, of length max(len(a), len(b)).
poly_add(a, b) ==
    LET n == IF Len(a) >= Len(b) THEN Len(a) ELSE Len(b)
    IN  VecFrom([i \in 1..n |-> (IF i <= Len(a) THEN a[i] ELSE 0)
                                + (IF i <= Len(b) THEN b[i] ELSE 0)], n)

\* Polynomial::mul: the full convolution, of length len(a) + len(b) - 1; an
\* empty coefficient list is the zero polynomial.
poly_mul(a, b) ==
    IF Len(a) = 0 \/ Len(b) = 0 THEN <<>>
    ELSE LET n == Len(a) + Len(b) - 1
         IN  VecFrom([d \in 1..n |->
                 SumFn([i \in {h \in 1..Len(a) : d + 1 - h \in 1..Len(b)} |->
                           a[i] * b[d + 1 - i]])], n)

\* A scalar as a Polynomial of degree 0.
poly_scalar(c) == <<c>>

\* Polynomial::degree, with the zero high-order coefficients trimmed.
poly_degree(coeffs) ==
    LET nonzero == {i \in 1..Len(coeffs) : coeffs[i] # 0}
    IN  IF nonzero = {} THEN 0 ELSE SetMax(nonzero) - 1

\* MPolynomial::sum_all_evals: the sum of the polynomial over the whole
\* hypercube.
sum_all_evals(self) ==
    SumFn([n \in 0..(2 ^ self.var_num - 1) |->
              evaluate(self, convert_to_binary(self.var_num, n)).value])

\* The loops of Prover::proof from the iteration (i, j) on, res being the sum
\* so far.  Both loops run over 0..k_i_plus_1, and the domain the selectors
\* are evaluated at is ops_domain = r_i ++ a: the b appended at line 51 is
\* appended to a clone that is dropped.
RECURSIVE proof_loop(_, _, _, _)
proof_loop(self, i, j, res) ==
    LET k_i_plus_1 == self.w_i_plus_1.var_num
        a == convert_to_binary(k_i_plus_1, i)
        w_a == evaluate(self.w_i_plus_1, a)
        ops_domain == self.r_i \o a
        b == convert_to_binary(k_i_plus_1, j)
        w_b == evaluate(self.w_i_plus_1, b)
        add_i == evaluate(self.add, ops_domain)
        multi == evaluate(self.mult, ops_domain)
    IN  IF i >= k_i_plus_1 THEN Ok(res)
        ELSE IF w_a.status # "ok" THEN w_a
        ELSE IF j >= k_i_plus_1 THEN proof_loop(self, i + 1, 0, res)
        ELSE IF w_b.status # "ok" THEN w_b
        ELSE IF add_i.status # "ok" THEN add_i
        ELSE IF multi.status # "ok" THEN multi
        ELSE proof_loop(self, i, j + 1,
                        res + add_i.value * (w_a.value + w_b.value)
                            + multi.value * (w_a.value * w_b.value))

\* Prover::proof.
proof(self) == proof_loop(self, 0, 0, 0)

\* The expression the three round functions end with:
\* poly_add.mul(&poly_w_a).add(&poly_add.mul(&w_b).add(
\*     &poly_mult.mul(&poly_w_a).mul(&w_b))).
round_combine(p_add, p_mult, p_w_a, w_b) ==
    poly_add(poly_mul(p_add, p_w_a),
             poly_add(poly_mul(p_add, poly_scalar(w_b)),
                      poly_mul(poly_mul(p_mult, p_w_a), poly_scalar(w_b))))

\* The body the three round functions share after their assertion: the
\* selectors are partially evaluated at ops_challenge_domain, the next layer
\* at the challenges, and a panic of any of the three ends the call.
round_body(self, ops_challenge_domain, challenges, overflow_checks) ==
    LET p_add == partial_evaluate(self.add, ops_challenge_domain,
                                  overflow_checks)
        p_mult == partial_evaluate(self.mult, ops_challenge_domain,
                                   overflow_checks)
        p_w_a == partial_evaluate(self.w_i_plus_1, challenges, overflow_checks)
        w_b == sum_all_evals(self.w_i_plus_1)
    IN  IF p_add.status # "ok" THEN p_add
        ELSE IF p_mult.status # "ok" THEN p_mult
        ELSE IF p_w_a.status # "ok" THEN p_w_a
        ELSE Ok(round_combine(p_add.value, p_mult.value, p_w_a.value, w_b))

\* Prover::round_1.
round_1(self, overflow_checks) ==
    round_body(self, self.r_i, <<>>, overflow_checks)

\* Prover::recursive_round_j.
recursive_round_j(self, challenges, overflow_checks) ==
    IF ~(self.v_r > Len(challenges) \/ Len(challenges) >= 1)
    THEN Panic("assertion failed: self.v_r > challenges.len() || challenges.len() >= 1")
    ELSE round_body(self, self.r_i \o challenges, challenges, overflow_checks)

\* Prover::round_v.  self.v_r - 1 is a usize subtraction: with v_r = 0 it
\* panics where overflow is checked, and wraps to a value no length equals
\* where it is not.
round_v(self, challenges, overflow_checks) ==
    IF self.v_r = 0 /\ overflow_checks
    THEN Panic("attempt to subtract with overflow")
    ELSE IF self.v_r = 0 \/ self.v_r - 1 # Len(challenges)
    THEN Panic("assertion left == right failed")
    ELSE round_body(self, self.r_i \o challenges, challenges, overflow_checks)

-----------------------------------------------------------------------------
(* The sum-check session: a Prover built by Prover::new, and the verifier   *)
(* of the specification (section 4.6), which is a state machine             *)
(* Init -> Round(1..v) -> Final -> {Accept, Reject}.  The two take turns:   *)
(* the prover sends the claimed sum and then one Polynomial a round, the    *)
(* verifier checks each and answers with a challenge.                       *)

\* The largest challenge the verifier draws.
MaxChallenge == 1
\* The largest claimed sum a prover sends without computing it.
MaxClaim == 2

\* The coefficient table of c times the monomial of index m, in n variables.
UnitTable(n, m, c) == [i \in 1..(2 ^ n) |-> IF i = m + 1 THEN c ELSE 0]

\* Gate selectors of n variables: zero, the constant 1, and the product of
\* all the variables.
Selectors(n) == {UnitTable(n, m, c) : m \in {0, 2 ^ n - 1}, c \in 0..1}

\* Next-layer polynomials of k variables: constants and multiples of the
\* product of all the variables.
NextLayers(k) == {UnitTable(k, m, c) : m \in {0, 2 ^ k - 1}, c \in 0..MaxCoeff}

\* The shapes (v_l, k) of the provers: v_l bound variables, and k variables of
\* the next layer, so that the selectors have v_l + 2k variables and the
\* protocol has v_r = 2k rounds.
GkrShapes == {<<0, 1>>, <<1, 1>>, <<0, 2>>}

\* Prover::new.
new(v_l, v_r, add, mult, w_i_plus_1, r_i) ==
    [v_l |-> v_l, v_r |-> v_r, add |-> add, mult |-> mult,
     w_i_plus_1 |-> w_i_plus_1, r_i |-> r_i]

Provers ==
    UNION {{new(s[1], 2 * s[2],
                [var_num |-> s[1] + 2 * s[2], coeffs |-> a],
                [var_num |-> s[1] + 2 * s[2], coeffs |-> m],
                [var_num |-> s[2], coeffs |-> w], r) :
               a \in Selectors(s[1] + 2 * s[2]),
               m \in Selectors(s[1] + 2 * s[2]),
               w \in NextLayers(s[2]),
               r \in Vectors(s[1])} : s \in GkrShapes}

\* The challenges the verifier draws from.
Challenges == 0..MaxChallenge

\* What a prover sends when it does not run the code of Prover: a claimed sum,
\* or one of a few polynomials (zero, X + X^2, 1 + X, X^3).
GivenClaims == 0..MaxClaim
ForgedPolys == {<<0, 0>>, <<0, 1, 1>>, <<1, 1>>, <<0, 0, 0, 1>>}

\* The degree the verifier allows a round polynomial: each variable has
\* degree 1 in a selector and degree 1 in W.
ExpectedMaxDegree == 2

InitVerifier == [state |-> "Init", round |-> 0, claimed_sum |-> 0,
                 claim |-> 0, challenges |-> <<>>, received |-> <<>>]

ClaimMsg(c) == [kind |-> "claim", value |-> c]
PolyMsg(g) == [kind |-> "poly", value |-> g]

\* The value the verifier checks the last claim against: f at the challenges,
\* evaluated directly, the first half of the challenges being a and the
\* second b.
gkr_oracle(self, challenges) ==
    LET k == self.w_i_plus_1.var_num
        a == SubSeq(challenges, 1, k)
        b == SubSeq(challenges, k + 1, 2 * k)
        point == self.r_i \o challenges
        w_a == evaluate(self.w_i_plus_1, a).value
        w_b == evaluate(self.w_i_plus_1, b).value
    IN  evaluate(self.add, point).value * (w_a + w_b)
        + evaluate(self.mult, point).value * (w_a * w_b)

\* The checks of a round: the degree bound, and g(0) + g(1) against the
\* running claim.  The mutant checks the degree only.
round_check_degree_only(v, g) == poly_degree(g) <= ExpectedMaxDegree

round_check(v, g) ==
    /\ poly_degree(g) <= ExpectedMaxDegree
    /\ poly_evaluate(g, 0) + poly_evaluate(g, 1) = v.claim

InitGkr ==
    /\ mle = NoMle
    /\ evals = <<>>
    /\ call = NoCall
    /\ ret = NoRet
    /\ map = EmptyMap
    /\ prover \in Provers
    /\ verifier = InitVerifier
    /\ msg = NoMsg
    /\ honest = TRUE

\* It is the turn of the prover, and no call of it has panicked.
ProverTurn == msg.kind = "none" /\ ret.status # "panic"

\* What a call of the prover leaves: its result is sent when it returns.
ProverCall(op, result, kind) ==
    /\ call' = [op |-> op]
    /\ ret' = result
    /\ msg' = IF result.status = "ok"
              THEN [kind |-> kind, value |-> result.value] ELSE msg
    /\ UNCHANGED <<mle, evals, map, prover, verifier, honest>>

\* The prover computes the claimed sum with proof().
Proof ==
    /\ ProverTurn
    /\ verifier.state = "Init"
    /\ ProverCall("proof", proof(prover), "claim")

\* The prover sends a claimed sum it was given.
GivenClaim ==
    \E c \in GivenClaims :
        /\ ProverTurn
        /\ verifier.state = "Init"
        /\ msg' = ClaimMsg(c)
        /\ honest' = FALSE
        /\ UNCHANGED <<mle, evals, call, ret, map, prover, verifier>>

Round1 ==
    \E overflow_checks \in BOOLEAN :
        /\ ProverTurn
        /\ verifier.state = "Round"
        /\ verifier.round = 1
        /\ ProverCall("round_1", round_1(prover, overflow_checks), "poly")

RecursiveRoundJ ==
    \E overflow_checks \in BOOLEAN :
        /\ ProverTurn
        /\ verifier.state = "Round"
        /\ 1 < verifier.round
        /\ verifier.round < prover.v_r
        /\ ProverCall("recursive_round_j",
                      recursive_round_j(prover, verifier.challenges,
                                        overflow_checks), "poly")

RoundV ==
    \E overflow_checks \in BOOLEAN :
        /\ ProverTurn
        /\ verifier.state = "Round"
        /\ 1 < verifier.round
        /\ verifier.round = prover.v_r
        /\ ProverCall("round_v",
                      round_v(prover, verifier.challenges, overflow_checks),
                      "poly")

\* The prover sends a polynomial that no round function computed.
Forge ==
    \E g \in ForgedPolys :
        /\ ProverTurn
        /\ verifier.state = "Round"
        /\ msg' = PolyMsg(g)
        /\ honest' = FALSE
        /\ UNCHANGED <<mle, evals, call, ret, map, prover, verifier>>

\* Init -> Round(1): the verifier takes the claimed sum.
VerifierClaim ==
    /\ verifier.state = "Init"
    /\ msg.kind = "claim"
    /\ verifier' = [verifier EXCEPT !.state = "Round", !.round = 1,
                                    !.claimed_sum = msg.value,
                                    !.claim = msg.value]
    /\ msg' = NoMsg
    /\ call' = NoCall
    /\ ret' = NoRet
    /\ UNCHANGED <<mle, evals, map, prover, honest>>

\* Round(i) -> Reject: a check of the round fails.
VerifierReject ==
    /\ verifier.state = "Round"
    /\ msg.kind = "poly"
    /\ ~round_check(verifier, msg.value)
    /\ verifier' = [verifier EXCEPT !.state = "Reject",
                                    !.received = Append(@, msg.value)]
    /\ msg' = NoMsg
    /\ call' = NoCall
    /\ ret' = NoRet
    /\ UNCHANGED <<mle, evals, map, prover, honest>>

\* Round(i) -> Round(i + 1), or Round(v) -> Final: the checks pass, the
\* verifier draws the challenge r and the claim becomes g(r).
VerifierChallenge ==
    \E r \in Challenges :
        /\ verifier.state = "Round"
        /\ msg.kind = "poly"
        /\ round_check(verifier, msg.value)
        /\ verifier' =
               [state |-> IF verifier.round = prover.v_r
                          THEN "Final" ELSE "Round",
                round |-> IF verifier.round = prover.v_r
                          THEN verifier.round ELSE verifier.round + 1,
                claimed_sum |-> verifier.claimed_sum,
                claim |-> poly_evaluate(msg.value, r),
                challenges |-> Append(verifier.challenges, r),
                received |-> Append(verifier.received, msg.value)]
        /\ msg' = NoMsg
        /\ call' = NoCall
        /\ ret' = NoRet
        /\ UNCHANGED <<mle, evals, map, prover, honest>>

\* Final -> Accept or Reject: the last claim against the oracle.
VerifierFinal ==
    /\ verifier.state = "Final"
    /\ verifier' =
           [verifier EXCEPT !.state =
               IF verifier.claim = gkr_oracle(prover, verifier.challenges)
               THEN "Accept" ELSE "Reject"]
    /\ UNCHANGED <<mle, evals, call, ret, map, prover, msg, honest>>

NextGkr ==
    \/ Proof
    \/ GivenClaim
    \/ Round1
    \/ RecursiveRoundJ
    \/ RoundV
    \/ Forge
    \/ VerifierClaim
    \/ VerifierReject
    \/ VerifierChallenge
    \/ VerifierFinal

SpecGkr == InitGkr /\ [][NextGkr]_vars

-----------------------------------------------------------------------------
(* The polynomial the GKR sum-check is about:                               *)
(* f(a, b) = add(r_i, a, b) (W(a) + W(b)) + mult(r_i, a, b) W(a) W(b).      *)

\* f at a point (a, b) of 2k coordinates.
GkrF(self, point) ==
    LET k == self.w_i_plus_1.var_num
        w_a == MleValue(self.w_i_plus_1, SubSeq(point, 1, k))
        w_b == MleValue(self.w_i_plus_1, SubSeq(point, k + 1, 2 * k))
    IN  MleValue(self.add, self.r_i \o point) * (w_a + w_b)
        + MleValue(self.mult, self.r_i \o point) * (w_a * w_b)

\* The sum of f over all the pairs (a, b) of the hypercube.
GkrSum(self) ==
    SumFn([c \in Hypercube(2 * self.w_i_plus_1.var_num) |-> GkrF(self, c)])

\* The round polynomial at x: the sum of f(prefix, x, c) over the hypercube
\* points c of the variables that follow.
GkrRound(self, prefix, x) ==
    SumFn([c \in Hypercube(2 * self.w_i_plus_1.var_num - Len(prefix) - 1) |->
              GkrF(self, prefix \o <<x>> \o c)])

\* C5: proof() returns the sum of f over all the pairs (a, b) of
\* {0,1}^k x {0,1}^k, for a prover whose selectors have len(r_i) + 2k
\* variables.
ProofIsClaimedSum ==
    call.op = "proof" =>
        /\ ret.status = "ok"
        /\ ret.value = GkrSum(prover)

\* C6: the polynomial round_1() returns is g_1: at every point x it takes the
\* value of the sum of f(x, a_2..a_k, b) over the hypercube.  (Stated of the
\* calls that return.)
Round1IsFirstRoundPolynomial ==
    (call.op = "round_1" /\ ret.status = "ok") =>
        \A x \in Points : poly_evaluate(ret.value, x) = GkrRound(prover, <<>>, x)

\* C7: in a run where every message of the prover is computed by proof(),
\* round_1, recursive_round_j and round_v, no call of the prover fails and no
\* check of the verifier fails, so that the run ends in Accept.
HonestRunAccepts ==
    honest =>
        /\ ret.status # "panic"
        /\ verifier.state # "Reject"

-----------------------------------------------------------------------------
(* The verifier as a state machine.                                         *)

\* The claim the i-th received polynomial is checked against: the claimed sum
\* in round 1, and afterwards the previous polynomial at the previous
\* challenge.
ClaimBefore(v, i) ==
    IF i = 1 THEN v.claimed_sum
    ELSE poly_evaluate(v.received[i - 1], v.challenges[i - 1])

\* The i-th received polynomial passes the degree bound and the sum check.
RoundPassed(v, i) ==
    /\ \A d \in 1..Len(v.received[i]) :
           d > ExpectedMaxDegree + 1 => v.received[i][d] = 0
    /\ poly_evaluate(v.received[i], 0) + poly_evaluate(v.received[i], 1)
           = ClaimBefore(v, i)

\* The last claim is the value of f at the challenges.
FinalPassed(self, v) ==
    /\ Len(v.challenges) = self.v_r
    /\ Len(v.received) = self.v_r
    /\ poly_evaluate(v.received[self.v_r], v.challenges[self.v_r])
           = GkrF(self, v.challenges)

\* What holds of the verifier in every state: where it is, how many
\* challenges it has drawn, and which checks have passed.
VerifierInv ==
    /\ verifier.state \in {"Init", "Round", "Final", "Accept", "Reject"}
    /\ verifier.state = "Init" =>
           verifier.challenges = <<>> /\ verifier.received = <<>>
    /\ verifier.state = "Round" =>
           /\ verifier.round \in 1..prover.v_r
           /\ Len(verifier.challenges) = verifier.round - 1
           /\ Len(verifier.received) = verifier.round - 1
    /\ verifier.state \in {"Final", "Accept"} =>
           /\ Len(verifier.challenges) = prover.v_r
           /\ Len(verifier.received) = prover.v_r
    \* a challenge is drawn only for a polynomial that passed its checks
    /\ \A i \in 1..Len(verifier.challenges) : RoundPassed(verifier, i)
    \* Accept: the v round checks and the final check have passed
    /\ verifier.state = "Accept" =>
           /\ \A i \in 1..prover.v_r : RoundPassed(verifier, i)
           /\ FinalPassed(prover, verifier)
    \* Reject: the polynomial received last failed a check, or the final
    \* check failed
    /\ verifier.state = "Reject" =>
           \/ /\ Len(verifier.received) = Len(verifier.challenges) + 1
              /\ ~RoundPassed(verifier, Len(verifier.received))
           \/ /\ Len(verifier.challenges) = prover.v_r
              /\ ~FinalPassed(prover, verifier)

\* The steps of the verifier: the order of its states, Accept and Reject
\* terminal, and a polynomial that fails a check answered by Reject and by no
\* challenge.
VerifierMoves ==
    /\ verifier.state \in {"Accept", "Reject"} => verifier' = verifier
    /\ verifier'.state # verifier.state \/ verifier'.round # verifier.round =>
           \/ /\ verifier.state = "Init"
              /\ verifier'.state = "Round"
              /\ verifier'.round = 1
           \/ /\ verifier.state = "Round"
              /\ verifier.round < prover.v_r
              /\ verifier'.state = "Round"
              /\ verifier'.round = verifier.round + 1
           \/ /\ verifier.state = "Round"
              /\ verifier.round = prover.v_r
              /\ verifier'.state = "Final"
           \/ /\ verifier.state = "Round"
              /\ verifier'.state = "Reject"
           \/ /\ verifier.state = "Final"
              /\ verifier'.state \in {"Accept", "Reject"}
    /\ (/\ verifier.state = "Round"
        /\ msg.kind = "poly"
        /\ msg'.kind = "none"
        /\ poly_evaluate(msg.value, 0) + poly_evaluate(msg.value, 1)
               # verifier.claim) =>
           /\ verifier'.state = "Reject"
           /\ verifier'.challenges = verifier.challenges
    /\ verifier'.state = "Reject" => verifier'.challenges = verifier.challenges

\* C8: the verifier moves Init -> Round(1) -> ... -> Round(v) -> Final ->
\* Accept or Reject; every failed check moves it to Reject; nothing leaves
\* Accept or Reject; no challenge is drawn after Reject; Accept is reached
\* only when the v round checks and the final check have passed; so a round
\* polynomial whose g(0) + g(1) differs from the running claim is never
\* followed by Accept.
VerifierTerminalStates == []VerifierInv /\ [][VerifierMoves]_vars

\* The verifier accepts a run of two rounds about a sum that is not zero.
VerifierAcceptWitness ==
    /\ verifier.state = "Accept"
    /\ verifier.claimed_sum # 0
    /\ Len(verifier.received) = 2
    /\ verifier.received[1] = <<0, 1, 1>>

-----------------------------------------------------------------------------
(* The Prover called directly: any of its four functions, with a challenge  *)
(* vector of any length, and evaluate and partial_evaluate of its W, one    *)
(* call at a time.  The build (with or without integer overflow checks) is  *)
(* recorded with the call.                                                  *)

\* What a call leaves of the Prover it was made on.  Every function borrows
\* &self; proof appends a and b to clones of r_i (lines 43-44, 51).
prover_after_proof(self) == self

\* A mutant of prover_after_round: the challenges are appended to r_i itself.
prover_after_round_no_clone(self, challenges) ==
    [self EXCEPT !.r_i = @ \o challenges]

\* recursive_round_j and round_v append the challenges to a clone of r_i
\* (lines 86-87, 105-106); round_1 passes &self.r_i on.
prover_after_round(self, challenges) == self

\* What a call leaves of the MPolynomial it was made on: evaluate and
\* partial_evaluate borrow &self, and build their domain from clones
\* (multivar_poly.rs lines 43, 123-125).
mle_after_evaluate(self, domain) == self
mle_after_partial_evaluate(self, challenge_domain) == self

\* The challenge vectors a caller passes, of every length from 0 to v_r + 1:
\* the points of the hypercube, and the vectors that repeat one challenge.
ChallengeVectors(v_r) ==
    UNION {Hypercube(n) \cup {[i \in 1..n |-> c] : c \in Challenges} :
               n \in 0..(v_r + 1)}

InitProver ==
    /\ mle = NoMle
    /\ evals = <<>>
    /\ call = NoCall
    /\ ret = NoRet
    /\ map = EmptyMap
    /\ prover \in Provers
    /\ verifier = NoVerifier
    /\ msg = NoMsg
    /\ honest = TRUE

\* The result of the call recorded in c, made on self.
prover_call(self, c) ==
    CASE c.op = "proof" -> proof(self)
      [] c.op = "round_1" -> round_1(self, c.overflow_checks)
      [] c.op = "recursive_round_j" ->
             recursive_round_j(self, c.challenges, c.overflow_checks)
      [] c.op = "round_v" -> round_v(self, c.challenges, c.overflow_checks)
      [] c.op = "evaluate" -> evaluate(self.w_i_plus_1, c.challenges)
      [] c.op = "partial_evaluate" ->
             partial_evaluate(self.w_i_plus_1, c.challenges, c.overflow_checks)

\* The Prover after the call recorded in c.
prover_after(self, c) ==
    CASE c.op = "proof" -> prover_after_proof(self)
      [] c.op = "round_1" -> prover_after_round(self, <<>>)
      [] c.op \in {"recursive_round_j", "round_v"} ->
             prover_after_round(self, c.challenges)
      [] c.op = "evaluate" ->
             [self EXCEPT !.w_i_plus_1 = mle_after_evaluate(@, c.challenges)]
      [] c.op = "partial_evaluate" ->
             [self EXCEPT !.w_i_plus_1 =
                 mle_after_partial_evaluate(@, c.challenges)]

ProverCalls(v_r) ==
    {[op |-> "proof", challenges |-> <<>>, overflow_checks |-> b] :
         b \in BOOLEAN}
    \cup {[op |-> "round_1", challenges |-> <<>>, overflow_checks |-> b] :
              b \in BOOLEAN}
    \cup {[op |-> o, challenges |-> c, overflow_checks |-> b] :
              o \in {"recursive_round_j", "round_v", "evaluate",
                     "partial_evaluate"},
              c \in ChallengeVectors(v_r), b \in BOOLEAN}

\* A call of the Prover.
Call ==
    \E c \in ProverCalls(prover.v_r) :
        /\ call = NoCall
        /\ call' = c
        /\ ret' = prover_call(prover, c)
        /\ prover' = prover_after(prover, c)
        /\ UNCHANGED <<mle, evals, map, verifier, msg, honest>>

\* The caller makes the call it has just made once more.
Repeat ==
    /\ call.op # "none"
    /\ ret' = prover_call(prover, call)
    /\ prover' = prover_after(prover, call)
    /\ UNCHANGED <<mle, evals, call, map, verifier, msg, honest>>

\* The caller takes the result, or catches the panic.
Return ==
    /\ call.op # "none"
    /\ call' = NoCall
    /\ ret' = NoRet
    /\ UNCHANGED <<mle, evals, map, prover, verifier, msg, honest>>

NextProver == Call \/ Repeat \/ Return

SpecProver == InitProver /\ [][NextProver]_vars

\* C11: recursive_round_j called with a challenge vector of length 0 or of
\* length >= v_r, and round_v called with one of length other than v_r - 1,
\* fail on their length assertion, before any partial evaluation.
WrongLengthFailsOnAssertion ==
    /\ (/\ call.op = "recursive_round_j"
        /\ (Len(call.challenges) = 0 \/ Len(call.challenges) >= prover.v_r))
           => /\ ret.status = "panic"
              /\ ret.value = "assertion failed: self.v_r > challenges.len() || challenges.len() >= 1"
    /\ (call.op = "round_v" /\ Len(call.challenges) # prover.v_r - 1)
           => /\ ret.status = "panic"
              /\ ret.value = "assertion left == right failed"

-----------------------------------------------------------------------------
(* The Matrix of 2_Freivalds_Algorithm/src/matrix.rs: rows, cols and the    *)
(* values row by row.                                                       *)

\* The largest number of rows or columns, and the largest entry of a unit
\* matrix or vector.
MaxDim == 2
MaxEntry == 2

\* Matrix::get_columns.
get_columns(self, column_index) ==
    IF ~(self.cols > column_index)
    THEN Panic("assertion failed: self.cols > column_index")
    ELSE Ok([i \in 1..self.rows |-> self.values[i][column_index + 1]])

\* The loop of vec_mul over a.into_iter().zip(b), from position i on.
RECURSIVE vec_mul_loop(_, _, _, _)
vec_mul_loop(a, b, i, res) ==
    IF i > Len(a) \/ i > Len(b) THEN res
    ELSE vec_mul_loop(a, b, i + 1, res + a[i] * b[i])

\* Matrix::vec_mul.
vec_mul(a, b) ==
    IF Len(a) # Len(b) THEN Panic("assertion left == right failed")
    ELSE Ok(vec_mul_loop(a, b, 1, 0))

\* The first panic among the outcomes of a sequence, or the sequence of
\* their values.
Collect(outcomes) ==
    LET failed == {i \in 1..Len(outcomes) : outcomes[i].status # "ok"}
    IN  IF failed # {}
        THEN outcomes[CHOOSE i \in failed : \A h \in failed : i <= h]
        ELSE Ok([i \in 1..Len(outcomes) |-> outcomes[i].value])

\* Matrix::matrix_mul_vec.
matrix_mul_vec(self, vector) ==
    IF self.cols # Len(vector) THEN Panic("assertion left == right failed")
    ELSE Collect([i \in 1..self.rows |-> vec_mul(self.values[i], vector)])

\* A mutant of mul_row: the columns of m_b are taken from the last to the
\* first.
mul_row_reversed(m_a, m_b, i) ==
    Collect([j \in 1..m_b.cols |->
                LET col_j == get_columns(m_b, m_b.cols - j)
                IN  IF col_j.status # "ok" THEN col_j
                    ELSE vec_mul(m_a.values[i], col_j.value)])

\* The row i of Matrix::mul: elem_ij = vec_mul(row_i, col_j) for j in 0..p.
mul_row(m_a, m_b, i) ==
    Collect([j \in 1..m_b.cols |->
                LET col_j == get_columns(m_b, j - 1)
                IN  IF col_j.status # "ok" THEN col_j
                    ELSE vec_mul(m_a.values[i], col_j.value)])

\* Matrix::mul.
mul(m_a, m_b) ==
    IF ~(m_a.cols > 0 \/ m_b.rows > 0) THEN Panic("matrix a is empty")
    ELSE IF ~(m_b.cols > 0 \/ m_b.rows > 0) THEN Panic("matrix a is empty")
    ELSE IF m_a.cols # m_b.rows THEN Panic("assertion left == right failed")
    ELSE LET matrix == Collect([i \in 1..m_a.rows |-> mul_row(m_a, m_b, i)])
         IN  IF matrix.status # "ok" THEN matrix
             ELSE Ok([rows |-> m_a.rows, cols |-> m_b.cols,
                      values |-> matrix.value])

\* The matrices of m rows and n columns that are enumerated: zero, the
\* multiples of the unit matrices, the identity (1 on the diagonal), and the
\* matrix of the entries 1, 2, 3, ... row by row.
NewMatrix(m, n, entry) ==
    [rows |-> m, cols |-> n,
     values |-> [i \in 1..m |-> [j \in 1..n |-> entry[i, j]]]]

ZeroMatrix(m, n) ==
    NewMatrix(m, n, [i \in 1..m, j \in 1..n |-> 0])

UnitMatrix(m, n, r, q, c) ==
    NewMatrix(m, n, [i \in 1..m, j \in 1..n |->
                        IF i = r /\ j = q THEN c ELSE 0])

IdentityMatrix(m, n) ==
    NewMatrix(m, n, [i \in 1..m, j \in 1..n |-> IF i = j THEN 1 ELSE 0])

CountingMatrix(m, n) ==
    NewMatrix(m, n, [i \in 1..m, j \in 1..n |-> (i - 1) * n + j])

Matrices(m, n) ==
    {ZeroMatrix(m, n), IdentityMatrix(m, n), CountingMatrix(m, n)}
    \cup {UnitMatrix(m, n, r, q, c) : r \in 1..m, q \in 1..n, c \in {1, MaxEntry}}

\* The vectors of length p that are enumerated: zero, MaxEntry times the
\* unit vectors, and (3, 5, ...), the vector of the test.
MatrixVectors(p) ==
    {[q \in 1..p |-> 0], [q \in 1..p |-> 2 * q + 1]}
    \cup {[q \in 1..p |-> IF q = r THEN MaxEntry ELSE 0] : r \in 1..p}

InitMatrix ==
    /\ mle = NoMle
    /\ evals = <<>>
    /\ call = NoCall
    /\ ret = NoRet
    /\ map = EmptyMap
    /\ NoSession

\* Matrix::mul(&A, &B), for A of m x n and B of n x p.
MatrixMul ==
    \E m \in 0..MaxDim, n \in 0..MaxDim, p \in 0..MaxDim :
        \E m_a \in Matrices(m, n), m_b \in Matrices(n, p),
           vector \in MatrixVectors(p) :
            /\ call = NoCall
            /\ call' = [op |-> "mul", m_a |-> m_a, m_b |-> m_b,
                        vector |-> vector]
            /\ ret' = mul(m_a, m_b)
            /\ UNCHANGED <<mle, evals, map, gkr>>

\* .matrix_mul_vec(&x) on the product that mul returned.
MatrixMulVec ==
    /\ call.op = "mul"
    /\ ret.status = "ok"
    /\ call' = [call EXCEPT !.op = "matrix_mul_vec"]
    /\ ret' = matrix_mul_vec(ret.value, call.vector)
    /\ UNCHANGED <<mle, evals, map, gkr>>

NextMatrix == MatrixMul \/ MatrixMulVec \/ Drop

SpecMatrix == InitMatrix /\ [][NextMatrix]_vars

\* A.matrix_mul_vec(&B.matrix_mul_vec(&x)).
MulVecTwice(m_a, m_b, vector) ==
    LET bx == matrix_mul_vec(m_b, vector)
    IN  IF bx.status # "ok" THEN bx ELSE matrix_mul_vec(m_a, bx.value)

\* What the claim says of the call in progress.
ProductCompatibleHere ==
    /\ call.op = "mul" =>
           /\ ret.status = "ok"
           /\ (call.m_a.rows = call.m_a.cols
               /\ call.m_a = IdentityMatrix(call.m_a.rows, call.m_a.cols))
                  => ret.value = call.m_b
           /\ (call.m_b.rows = call.m_b.cols
               /\ call.m_b = IdentityMatrix(call.m_b.rows, call.m_b.cols))
                  => ret.value = call.m_a
    /\ call.op = "matrix_mul_vec" =>
           LET abx == MulVecTwice(call.m_a, call.m_b, call.vector)
           IN  /\ ret.status = "ok"
               /\ abx.status = "ok"
               /\ ret.value = abx.value

\* C13 as stated: for every A (m x n), B (n x p) and x of length p,
\* mul(A, B).matrix_mul_vec(x) = A.matrix_mul_vec(B.matrix_mul_vec(x)), and
\* the product with the identity matrix is the other operand.
MatrixProductCompatible ==
    call.op \in {"mul", "matrix_mul_vec"} => ProductCompatibleHere

\* C13 as amended: the same for every A (m x n) and B (n x p) with n >= 1.
MatrixProductCompatibleNonEmpty ==
    (call.op \in {"mul", "matrix_mul_vec"} /\ call.m_a.cols >= 1)
        => ProductCompatibleHere

\* The product of the test: the two sides agree on a vector that is not zero.
MatrixProductWitness ==
    /\ call.op = "matrix_mul_vec"
    /\ call.m_a = CountingMatrix(2, 2)
    /\ call.m_b = CountingMatrix(2, 2)
    /\ call.vector = <<3, 5>>
    /\ ret.status = "ok"
    /\ ret.value = <<71, 155>>

-----------------------------------------------------------------------------
\* C14: partial_evaluate is total on valid inputs: for every MLE and every
\* prefix of length j < var_num it returns a Polynomial; when nothing was
\* accumulated the Polynomial is identically zero, and the exponents never
\* seen have the coefficient zero.
PartialEvaluateTotal ==
    (call.op = "partial_evaluate" /\ Len(call.challenge_domain) < mle.var_num)
        => /\ ret.status = "ok"
           /\ DOMAIN map = {} => \A i \in 1..Len(ret.value) : ret.value[i] = 0
           /\ \A i \in 1..Len(ret.value) :
                  (i - 1) \notin DOMAIN map => ret.value[i] = 0

-----------------------------------------------------------------------------
\* The round a challenge vector belongs to: round j is called with the j - 1
\* challenges of the rounds before it.
RoundOf(challenges) == Len(challenges) + 1

\* The call is the one the protocol makes in round j of 2..v_r:
\* recursive_round_j for j < v_r, round_v for j = v_r.
RoundCallOfProtocol ==
    \/ /\ call.op = "recursive_round_j"
       /\ RoundOf(call.challenges) \in 2..(prover.v_r - 1)
    \/ /\ call.op = "round_v"
       /\ RoundOf(call.challenges) = prover.v_r
       /\ prover.v_r >= 2

\* C15: for every round j of 2..v_r and every challenge vector of length
\* j - 1, recursive_round_j (round_v when j = v_r) returns a polynomial
\* without failing, the rounds j > k that bind the variables of b included.
\* The failure of partial_evaluate on an empty accumulator (C14) is left
\* aside: the formula asks only that no other failure ends the call.
EveryRoundReturnsPolynomial ==
    RoundCallOfProtocol
        => \/ ret.status = "ok"
           \/ /\ ret.status = "panic"
              /\ ret.value = "called Option::unwrap() on a None value"

-----------------------------------------------------------------------------
(* The products of evaluate and partial_evaluate at the width of the        *)
(* machine.  product is a usize (64 bits on the targets the crate builds    *)
(* for) and is turned into a Scalar only after the loop, by                 *)
(* Scalar::from(product as u64).  Values of that size are kept as sequences *)
(* of limbs, low limb first, without high zero limbs (zero is <<>>).  A     *)
(* Scalar is kept as the natural number it stands for: with at most three   *)
(* variables and coefficients below 2^8 every exact value is below 2^202,   *)
(* far below the modulus of the field (above 2^254), so no reduction is     *)
(* ever applied.                                                            *)

\* The width of product (product as u64).
WordBits == 64
\* A limb is a byte of the word.
LimbBits == 8
LimbBase == 2 ^ LimbBits
\* The limbs of a usize.
WordLimbs == WordBits \div LimbBits

RECURSIVE BigNormal(_)
BigNormal(a) ==
    IF a = <<>> THEN <<>>
    ELSE IF a[Len(a)] = 0 THEN BigNormal(SubSeq(a, 1, Len(a) - 1))
    ELSE a

RECURSIVE BigFromNat(_)
BigFromNat(n) ==
    IF n = 0 THEN <<>>
    ELSE <<n % LimbBase>> \o BigFromNat(n \div LimbBase)

BigLimb(a, i) == IF i <= Len(a) THEN a[i] ELSE 0

RECURSIVE BigAddFrom(_, _, _, _)
BigAddFrom(a, b, i, carry) ==
    IF i > Len(a) /\ i > Len(b)
    THEN IF carry = 0 THEN <<>> ELSE <<carry>>
    ELSE LET s == BigLimb(a, i) + BigLimb(b, i) + carry
         IN  <<s % LimbBase>> \o BigAddFrom(a, b, i + 1, s \div LimbBase)

BigAdd(a, b) == BigAddFrom(a, b, 1, 0)

\* a times the single limb d.
RECURSIVE BigMulLimbFrom(_, _, _, _)
BigMulLimbFrom(a, d, i, carry) ==
    IF i > Len(a)
    THEN IF carry = 0 THEN <<>> ELSE <<carry>>
    ELSE LET s == a[i] * d + carry
         IN  <<s % LimbBase>> \o BigMulLimbFrom(a, d, i + 1, s \div LimbBase)

\* a times LimbBase^k.
BigShift(a, k) == IF a = <<>> THEN <<>> ELSE [i \in 1..k |-> 0] \o a

RECURSIVE BigMulFrom(_, _, _)
BigMulFrom(a, b, i) ==
    IF i > Len(b) THEN <<>>
    ELSE BigAdd(BigShift(BigNormal(BigMulLimbFrom(a, b[i], 1, 0)), i - 1),
                BigMulFrom(a, b, i + 1))

\* The product of two naturals, exact.
BigMul(a, b) == BigNormal(BigMulFrom(a, b, 1))

\* 2^k.
BigPow2(k) == BigShift(<<2 ^ (k % LimbBits)>>, k \div LimbBits)

\* u64::MAX.
U64Max == [i \in 1..WordLimbs |-> LimbBase - 1]

\* The low 64 bits of a natural: what a wrapping operation keeps.
Wrap64(a) ==
    BigNormal(SubSeq(a, 1, IF Len(a) < WordLimbs THEN Len(a) ELSE WordLimbs))

\* usize multiplication (product *= ..): a build with overflow checks panics
\* when the product does not fit, a build without them keeps the low 64 bits.
u64_mul(a, b, overflow_checks) ==
    LET p == BigMul(a, b)
    IN  IF Len(p) <= WordLimbs THEN Ok(p)
        ELSE IF overflow_checks
        THEN Panic("attempt to multiply with overflow")
        ELSE Ok(Wrap64(p))

\* usize::pow for the exponents 0 and 1 (never overflows).
u64_pow(x, exp) == IF exp = 0 THEN BigFromNat(1) ELSE x

\* The loop over domain.zip(exps) of evaluate at the width of usize.
RECURSIVE evaluate_product_u64(_, _, _, _, _)
evaluate_product_u64(domain, exps, pos, product, overflow_checks) ==
    IF pos > Len(domain) \/ pos > Len(exps)
    THEN Ok(product)
    ELSE LET p == u64_mul(product, u64_pow(domain[pos], exps[pos]),
                          overflow_checks)
         IN  IF p.status = "panic" THEN p
             ELSE IF p.value = <<>> THEN Ok(<<>>)
             ELSE evaluate_product_u64(domain, exps, pos + 1, p.value,
                                       overflow_checks)

\* What one iteration of the loop over the coefficients adds to sum_of_term:
\* coeff.mul(&Scalar::from(product as u64)) is a product in the field.
evaluate_term_u64(self, domain, index, overflow_checks) ==
    LET coeff == self.coeffs[index + 1]
    IN  IF coeff = 0 THEN Ok(<<>>)
        ELSE IF index = 0 THEN Ok(BigFromNat(coeff))
        ELSE LET product == evaluate_product_u64(
                                domain,
                                convert_to_binary(self.var_num, index), 1,
                                BigFromNat(1), overflow_checks)
             IN  IF product.status = "panic" THEN product
                 ELSE IF product.value = <<>> THEN Ok(<<>>)
                 ELSE Ok(BigMul(BigFromNat(coeff), product.value))

RECURSIVE evaluate_sum_u64(_, _, _, _, _)
evaluate_sum_u64(self, domain, index, sum_of_term, overflow_checks) ==
    IF index >= Len(self.coeffs)
    THEN Ok(sum_of_term)
    ELSE LET term_i == evaluate_term_u64(self, domain, index, overflow_checks)
         IN  IF term_i.status = "panic" THEN term_i
             ELSE evaluate_sum_u64(self, domain, index + 1,
                                   BigAdd(sum_of_term, term_i.value),
                                   overflow_checks)

evaluate_u64(self, domain, overflow_checks) ==
    IF Len(domain) # self.var_num
    THEN Panic("Domain is less than var_num")
    ELSE evaluate_sum_u64(self, domain, 0, <<>>, overflow_checks)

\* map.entry(key).and_modify(|v| v.add_assign(&term)).or_insert(term) on
\* Scalars kept as limbs.
map_add_u64(m, key, term) ==
    IF key \in DOMAIN m
    THEN [m EXCEPT ![key] = BigAdd(@, term)]
    ELSE m @@ (key :> term)

\* The loop over domain.iter().zip(exps).enumerate() of partial_evaluate at
\* the width of usize.
RECURSIVE pe_product_u64(_, _, _, _, _, _, _)
pe_product_u64(domain, exps, j, index, key, product, overflow_checks) ==
    IF index >= Len(domain) \/ index >= Len(exps)
    THEN Ok([key |-> key, product |-> product])
    ELSE LET exp == exps[index + 1]
             k == IF index = j THEN exp ELSE key
             p == IF index = j THEN Ok(product)
                  ELSE u64_mul(product, u64_pow(domain[index + 1], exp),
                               overflow_checks)
         IN  IF p.status = "panic" THEN p
             ELSE IF p.value = <<>> THEN Ok([key |-> k, product |-> <<>>])
             ELSE pe_product_u64(domain, exps, j, index + 1, k, p.value,
                                 overflow_checks)

\* One iteration of the loop over extra_domain, for the coefficient at index.
pe_accumulate_u64(self, challenge_domain, index, extra, m, overflow_checks) ==
    LET coeff == self.coeffs[index + 1]
        j == Len(challenge_domain)
    IN  IF index = 0
        THEN Ok(map_add_u64(m, 0, BigFromNat(coeff)))
        ELSE LET domain == challenge_domain \o <<(<<>>)>>
                               \o [i \in 1..Len(extra) |-> BigFromNat(extra[i])]
                 exps == convert_to_binary(self.var_num, index)
                 kp == pe_product_u64(domain, exps, j, 0, 0, BigFromNat(1),
                                      overflow_checks)
             IN  IF kp.status = "panic" THEN kp
                 ELSE IF kp.value.product = <<>> THEN Ok(m)
                 ELSE Ok(map_add_u64(m, kp.value.key,
                             BigMul(BigFromNat(coeff), kp.value.product)))

\* The loop over extra_domain: n = 0 .. extra_n - 1 in order.
RECURSIVE pe_extras_u64(_, _, _, _, _, _)
pe_extras_u64(self, challenge_domain, index, n, m, overflow_checks) ==
    LET extra_var_num == self.var_num - Len(challenge_domain) - 1
    IN  IF n >= 2 ^ extra_var_num
        THEN Ok(m)
        ELSE LET acc == pe_accumulate_u64(
                            self, challenge_domain, index,
                            convert_to_binary(extra_var_num, n), m,
                            overflow_checks)
             IN  IF acc.status = "panic" THEN acc
                 ELSE pe_extras_u64(self, challenge_domain, index, n + 1,
                                    acc.value, overflow_checks)

\* The loop over self.coeffs.iter().enumerate(), zero coefficients skipped.
RECURSIVE pe_coeffs_u64(_, _, _, _, _)
pe_coeffs_u64(self, challenge_domain, index, m, overflow_checks) ==
    IF index >= Len(self.coeffs)
    THEN Ok(m)
    ELSE IF self.coeffs[index + 1] = 0
    THEN pe_coeffs_u64(self, challenge_domain, index + 1, m, overflow_checks)
    ELSE LET acc == pe_extras_u64(self, challenge_domain, index, 0, m,
                                  overflow_checks)
         IN  IF acc.status = "panic" THEN acc
             ELSE pe_coeffs_u64(self, challenge_domain, index + 1, acc.value,
                                overflow_checks)

\* map -> poly, a missing key becomes Scalar::zero().
pe_densify_u64(m) ==
    IF DOMAIN m = {}
    THEN Panic("called Option::unwrap() on a None value")
    ELSE LET max_key == SetMax(DOMAIN m)
         IN  Ok([i \in 1..(max_key + 1) |->
                    IF (i - 1) \in DOMAIN m THEN m[i - 1] ELSE <<>>])

\* partial_evaluate at the width of usize.
partial_evaluate_u64(self, challenge_domain, overflow_checks) ==
    IF self.var_num < Len(challenge_domain) + 1
    THEN IF overflow_checks
         THEN Panic("attempt to subtract with overflow")
         ELSE Panic("capacity overflow")
    ELSE LET m == pe_coeffs_u64(self, challenge_domain, 0, EmptyMap,
                                overflow_checks)
         IN  IF m.status = "panic" THEN m ELSE pe_densify_u64(m.value)

-----------------------------------------------------------------------------
(* evaluate and partial_evaluate called with values of the whole range of   *)
(* a usize, under a build with or without overflow checks.                  *)

\* 0, 1, 2, 2^32, 2^63 and u64::MAX.
WideValues ==
    {<<>>, BigFromNat(1), BigFromNat(2), BigPow2(32), BigPow2(63), U64Max}

WideVectors(n) == [1..n -> WideValues]

InitU64 ==
    /\ mle \in {f \in Mles : f.var_num >= 1}
    /\ evals = <<>>
    /\ call = NoCall
    /\ ret = NoRet
    /\ map = EmptyMap
    /\ NoSession

EvaluateU64 ==
    \E domain \in WideVectors(mle.var_num), overflow_checks \in BOOLEAN :
        /\ call = NoCall
        /\ call' = [op |-> "evaluate", domain |-> domain,
                    overflow_checks |-> overflow_checks]
        /\ ret' = evaluate_u64(mle, domain, overflow_checks)
        /\ UNCHANGED <<mle, evals, map, gkr>>

PartialEvaluateU64 ==
    \E j \in 0..mle.var_num, overflow_checks \in BOOLEAN :
        \E challenge_domain \in WideVectors(j) :
            /\ call = NoCall
            /\ call' = [op |-> "partial_evaluate",
                        challenge_domain |-> challenge_domain,
                        overflow_checks |-> overflow_checks]
            /\ ret' = partial_evaluate_u64(mle, challenge_domain,
                                           overflow_checks)
            /\ UNCHANGED <<mle, evals, map, gkr>>

NextU64 == EvaluateU64 \/ PartialEvaluateU64 \/ Drop

SpecU64 == InitU64 /\ [][NextU64]_vars

\* The sum and the product of f[x] over the domain of f, for values kept as
\* limbs.
RECURSIVE BigSumFn(_)
BigSumFn(f) ==
    IF DOMAIN f = {} THEN <<>>
    ELSE LET x == CHOOSE y \in DOMAIN f : TRUE
         IN  BigAdd(f[x], BigSumFn([y \in DOMAIN f \ {x} |-> f[y]]))

RECURSIVE BigProductFn(_)
BigProductFn(f) ==
    IF DOMAIN f = {} THEN BigFromNat(1)
    ELSE LET x == CHOOSE y \in DOMAIN f : TRUE
         IN  BigMul(f[x], BigProductFn([y \in DOMAIN f \ {x} |-> f[y]]))

\* The monomial of index i at a point, in the field: the product of point[j]
\* over the positions j whose bit is set in i, the position skip left out.
FieldMonomial(v, i, point, skip) ==
    BigProductFn([j \in {k \in 1..v : BitSet(v, i, k) /\ k # skip} |->
                     point[j]])

\* The value of the polynomial at a point, in the field.
FieldValue(f, point) ==
    BigSumFn([i \in 0..(2 ^ f.var_num - 1) |->
                 BigMul(BigFromNat(f.coeffs[i + 1]),
                        FieldMonomial(f.var_num, i, point, 0))])

\* The coefficient of X^key of the sum of f(prefix, X, c) over the hypercube
\* points c, in the field.
FieldCoefficient(f, prefix, key) ==
    LET j == Len(prefix) + 1
        v == f.var_num
    IN  BigSumFn([ic \in {i \in 0..(2 ^ v - 1) : BitSet(v, i, j) <=> key = 1}
                             \X Hypercube(v - j) |->
                     BigMul(BigFromNat(f.coeffs[ic[1] + 1]),
                            FieldMonomial(
                                v, ic[1],
                                prefix \o <<(<<>>)>>
                                    \o [n \in 1..(v - j) |->
                                           BigFromNat(ic[2][n])],
                                j))])

\* The coefficient of X^key of a returned Polynomial.
CoefficientOf(coeffs, key) ==
    IF key + 1 <= Len(coeffs) THEN coeffs[key + 1] ELSE <<>>

\* C16: the monomial products are exact field values.  For every domain or
\* prefix of 64-bit unsigned values, evaluate returns the value of the
\* polynomial in the field and partial_evaluate returns the coefficients of
\* the hypercube sum in the field, also when an integer product is 2^64 or
\* more: no product wraps, no call fails on it, and no term is dropped
\* because a wrapped product became 0.  (A partial_evaluate whose exact
\* accumulator is empty may fail as C14 describes.)
MonomialProductsExact ==
    /\ call.op = "evaluate"
           => /\ ret.status = "ok"
              /\ ret.value = FieldValue(mle, call.domain)
    /\ (call.op = "partial_evaluate"
            /\ Len(call.challenge_domain) < mle.var_num)
           => \/ /\ ret.status = "ok"
                 /\ \A key \in 0..1 :
                        CoefficientOf(ret.value, key)
                            = FieldCoefficient(mle, call.challenge_domain, key)
              \/ /\ ret.status = "panic"
                 /\ ret.value = "called Option::unwrap() on a None value"
                 /\ \A key \in 0..1 :
                        FieldCoefficient(mle, call.challenge_domain, key) = <<>>

-----------------------------------------------------------------------------
(* The accumulation of partial_evaluate in any order.  The loops of         *)
(* partial_evaluate visit the pairs (index of a non-zero coefficient,       *)
(* point extra of the trailing hypercube) one after the other and add the   *)
(* contribution of each into the map.  Here the pairs are handed out in     *)
(* any order to workers that each add into a map of their own; a worker's   *)
(* map is merged into the shared map at any time, key by key, by the same   *)
(* field addition; when no pair and no local map is left, the shared map    *)
(* is turned into the Polynomial.                                           *)

Workers == {1, 2}

\* The pairs the loops of partial_evaluate visit.
pe_pairs(self, challenge_domain) ==
    {i \in 0..(Len(self.coeffs) - 1) : self.coeffs[i + 1] # 0}
        \X Hypercube(self.var_num - Len(challenge_domain) - 1)

\* The entries of a local map added into the shared map, key by key.
RECURSIVE map_merge(_, _)
map_merge(m, local) ==
    IF DOMAIN local = {} THEN m
    ELSE LET key == CHOOSE k \in DOMAIN local : TRUE
         IN  map_merge(map_add(m, key, local[key]),
                       [k \in DOMAIN local \ {key} |-> local[k]])

\* The polynomials and prefixes the accumulation is run on: the tested
\* polynomial with prefixes of length 1 and 2, and the polynomials of two
\* variables with coefficients 0 and 1.
AccumulateMles ==
    {TestMle} \cup {[var_num |-> 2, coeffs |-> t] : t \in [1..4 -> {0, 1}]}

AccumulatePrefixes(self) ==
    IF self = TestMle
    THEN {TestPrefix, <<10, 2>>, <<0, 1>>}
    ELSE {<<>>, <<0>>, <<2>>}

InitAccumulate ==
    /\ mle \in AccumulateMles
    /\ evals = <<>>
    /\ call = NoCall
    /\ ret = NoRet
    /\ map = EmptyMap
    /\ NoSession

Start ==
    \E challenge_domain \in AccumulatePrefixes(mle) :
        /\ call = NoCall
        /\ call' = [op |-> "accumulate",
                    challenge_domain |-> challenge_domain,
                    pending |-> pe_pairs(mle, challenge_domain),
                    local |-> [w \in Workers |-> EmptyMap],
                    worked |-> {}]
        /\ map' = EmptyMap
        /\ UNCHANGED <<mle, evals, ret, gkr>>

\* A worker takes any pending pair and adds its contribution to its own map.
Work ==
    /\ call.op = "accumulate"
    /\ \E w \in Workers, pair \in call.pending :
           call' = [call EXCEPT
                        !.pending = @ \ {pair},
                        !.local[w] = pe_accumulate(mle, call.challenge_domain,
                                                   pair[1], pair[2], @),
                        !.worked = @ \cup {w}]
    /\ UNCHANGED <<mle, evals, ret, map, gkr>>

\* A worker's map is merged into the shared map.
Merge ==
    /\ call.op = "accumulate"
    /\ \E w \in Workers :
           /\ DOMAIN call.local[w] # {}
           /\ map' = map_merge(map, call.local[w])
           /\ call' = [call EXCEPT !.local[w] = EmptyMap]
    /\ UNCHANGED <<mle, evals, ret, gkr>>

\* map -> poly, when every pair is done and every local map merged.
Finish ==
    /\ call.op = "accumulate"
    /\ call.pending = {}
    /\ \A w \in Workers : DOMAIN call.local[w] = {}
    /\ call' = [call EXCEPT !.op = "accumulated"]
    /\ ret' = pe_densify(map)
    /\ UNCHANGED <<mle, evals, map, gkr>>

NextAccumulate == Start \/ Work \/ Merge \/ Finish \/ Drop

SpecAccumulate == InitAccumulate /\ [][NextAccumulate]_vars

\* C17: the order of accumulation is irrelevant.  In whatever order or
\* interleaving the contributions of the (coefficient index, trailing
\* hypercube point) pairs are added, by workers on disjoint subsets of the
\* pairs whose maps are merged by field addition, the coefficient sequence
\* is the one partial_evaluate returns (and the call fails when
\* partial_evaluate fails).
AccumulationOrderIrrelevant ==
    call.op = "accumulated"
        => LET sequential == partial_evaluate(mle, call.challenge_domain, TRUE)
           IN  /\ ret.status = sequential.status
               /\ ret.value = sequential.value

\* The tested polynomial with the tested prefix, both workers having added
\* pairs: 12 + 16X.
AccumulationWitness ==
    /\ call.op = "accumulated"
    /\ mle = TestMle
    /\ call.challenge_domain = TestPrefix
    /\ call.worked = Workers
    /\ ret.status = "ok"
    /\ ret.value = <<12, 16>>

-----------------------------------------------------------------------------
(* The low degree test: Prover::split_and_fold.  split_poly, the Polynomial *)
(* and the Keccak256Transcript are outside the sources at hand: split_poly  *)
(* is taken from the identity the verifier states,                          *)
(* f_i(z) = f_i_L(z^2) + z * f_i_R(z^2), so p_L holds the coefficients of   *)
(* the even powers and p_R those of the odd powers; a transcript is kept as *)
(* the number of challenges drawn from it, the value of a challenge being   *)
(* any field element.                                                       *)

\* split_poly: (p_L, p_R) with p(X) = p_L(X^2) + X * p_R(X^2).
split_poly(p) ==
    [L |-> [i \in 1..((Len(p) + 1) \div 2) |-> p[2 * i - 1]],
     R |-> [i \in 1..(Len(p) \div 2) |-> p[2 * i]]]

\* Proof::default(), as far as split_and_fold touches it.
DefaultProof == [last_const |-> <<0, 0>>]

\* Transcript::challenge(&mut self): one more challenge is drawn.
transcript_challenge(transcript) == transcript + 1

\* let p_i_plus_1 = p_L.add(&p_L.mul(&challenge));
fold_combine(p_L, p_R, challenge) ==
    poly_add(p_L, poly_mul(p_L, poly_scalar(challenge)))

\* split_and_fold: what it leaves in proof and transcript, and what it
\* returns.  challenge is the value transcript.challenge() gives.
split_and_fold(ldt_proof, p_i, transcript, challenge) ==
    LET s == split_poly(p_i)
        last == poly_degree(s.L) = 0 /\ poly_degree(s.R) = 0
    IN  [proof |-> IF last
                   THEN [ldt_proof EXCEPT !.last_const = <<s.L[1], s.R[1]>>]
                   ELSE ldt_proof,
         transcript |-> transcript_challenge(transcript),
         p_i_plus_1 |-> fold_combine(s.L, s.R, challenge)]

\* The polynomials folded: 2 or 4 coefficients.
FoldPolys == [1..2 -> 0..MaxCoeff] \cup [1..4 -> 0..MaxCoeff]

FoldChallenges == 0..MaxVal

InitFold ==
    /\ mle = NoMle
    /\ evals = <<>>
    /\ call = NoCall
    /\ ret = NoRet
    /\ map = EmptyMap
    /\ NoSession

FoldCall(ldt_proof, p_i, transcript, challenge) ==
    LET out == split_and_fold(ldt_proof, p_i, transcript, challenge)
    IN  /\ call' = [op |-> "split_and_fold", p_i |-> p_i,
                    challenge |-> challenge,
                    transcript_before |-> transcript,
                    transcript |-> out.transcript,
                    proof |-> out.proof]
        /\ ret' = Ok(out.p_i_plus_1)
        /\ UNCHANGED <<mle, evals, map, gkr>>

\* The first fold, of f_0 = f, with a new transcript and Proof::default().
SplitAndFold ==
    \E p_i \in FoldPolys, challenge \in FoldChallenges :
        /\ call = NoCall
        /\ FoldCall(DefaultProof, p_i, 0, challenge)

\* The next fold, of the polynomial the fold before returned.
SplitAndFoldNext ==
    \E challenge \in FoldChallenges :
        /\ call.op = "split_and_fold"
        /\ Len(ret.value) >= 2
        /\ FoldCall(call.proof, ret.value, call.transcript, challenge)

NextFold == SplitAndFold \/ SplitAndFoldNext \/ Drop

SpecFold == InitFold /\ [][NextFold]_vars

\* C18: split_and_fold draws exactly one challenge c from the transcript and
\* returns f_{i+1} = p_L + c * p_R, where (p_L, p_R) = split_poly(p_i): the
\* combination f_L + alpha * f_R the verifier recomputes and compares with
\* the opening of the next round.
FoldIsRandomLinearCombination ==
    call.op = "split_and_fold"
        => LET s == split_poly(call.p_i)
           IN  /\ call.transcript = call.transcript_before + 1
               /\ ret.value
                      = poly_add(s.L, poly_mul(s.R, poly_scalar(call.challenge)))

=============================================================================
